---- MODULE Spec2Model ----
(***************************************************************************)
(* Model of the post / image-storage backend: the Post collection, the     *)
(* GridFS bucket, the PostService operations, the post route handlers      *)
(* (the service-based router and the controller-based router) and the      *)
(* image download endpoints.                                               *)
(*                                                                         *)
(* Each HTTP request occupies a slot of req.  A step of a request is one   *)
(* database / bucket operation together with the synchronous code that     *)
(* runs up to the next await, so requests interleave exactly at the        *)
(* awaits of the handlers.                                                 *)
(***************************************************************************)
EXTENDS Integers, Sequences, FiniteSets, TLC

\* ---------------------------------------------------------------- bounds
MaxPosts   == 2      \* Post ids ever assigned
MaxFileId  == 2      \* bucket object ids ever assigned
MaxBatch   == 2      \* files per upload request in the interleaved model
MaxSize    == 0      \* buffer length of an uploaded file
MaxReqs    == 2      \* requests in flight at the same time
MaxServicePosts == 1 \* Post ids ever assigned in the model with every body
MaxBuffer  == 3      \* buffer length of a file in the download models
MaxByte    == 1      \* a byte is a value of 0..MaxByte
MaxListPosts == 3
MaxLimiters == 1     \* limiters created
MaxRequests == 2     \* largest maxRequests a limiter is created with
MaxClock == 4        \* the last instant of Date.now()
WindowMs == 2        \* RATE_LIMIT.WINDOW_MS
MaxAttempts == 2     \* initialization attempts of the guard in one process
ChunkSize  == 2      \* bytes per chunk of the bucket (chunkSizeBytes, scaled)

\* ------------------------------------------------------ program constants
MinTitle    == 3     \* title.trim().length < 3 is rejected
MinContent  == 10    \* content.trim().length < 10 is rejected
UploadLimit == 5     \* upload.array('images', 5)

Users   == {"u1", "u2"}
Reqs    == 1..MaxReqs
BadId   == 0         \* an id parameter that is not a well-formed ObjectId

\* ---------------------------------------------------------------- strings
\* A string is a sequence of characters; an optional value (a key of a JSON
\* body or of a document that may be undefined) is the empty set or a
\* singleton.
Absent    == {}
Some(x)   == {x}
Get(o)    == CHOOSE x \in o : TRUE

Rep(c, n) == [i \in 1..n |-> c]
Str(lead, n, trail) == Rep(" ", lead) \o Rep("a", n) \o Rep(" ", trail)

RECURSIVE TrimStart(_)
TrimStart(s) == IF s # <<>> /\ Head(s) = " " THEN TrimStart(Tail(s)) ELSE s

RECURSIVE TrimEnd(_)
TrimEnd(s) == IF s # <<>> /\ s[Len(s)] = " "
              THEN TrimEnd(SubSeq(s, 1, Len(s) - 1)) ELSE s

\* String.prototype.trim
Trim(s) == TrimEnd(TrimStart(s))

\* String.prototype.startsWith
StartsWith(s, p) == Len(s) >= Len(p) /\ SubSeq(s, 1, Len(p)) = p

\* JavaScript truthiness of an optional string: undefined and "" are falsy
Truthy(o) == o # Absent /\ Get(o) # <<>>

ImagePrefix == <<"i", "m", "a", "g", "e", "/">>
ImageJpeg   == ImagePrefix \o <<"j", "p", "e", "g">>
ImagePng    == ImagePrefix \o <<"p", "n", "g">>
AppPdf      == <<"a", "p", "p", "/", "p", "d", "f">>
ImageWord   == <<"i", "m", "a", "g", "e">>

\* mimetype of an uploaded file as multer reports it
MimeTypes == {ImagePng, AppPdf, ImageWord}

\* buffers of up to n bytes
Bytes      == 0..MaxByte
Buffers(n) == UNION { [1..k -> Bytes] : k \in 0..n }

\* Mutant of Chunks: the bytes after the last full chunk are not written.
ChunksFullOnly(buffer) ==
  [ k \in 1..(Len(buffer) \div ChunkSize) |->
      SubSeq(buffer, (k - 1) * ChunkSize + 1, k * ChunkSize) ]

\* the chunks the bucket's upload stream cuts a buffer into
RECURSIVE Chunks(_)
Chunks(buffer) ==
  IF Len(buffer) = 0 THEN <<>>
  ELSE IF Len(buffer) <= ChunkSize THEN <<buffer>>
  ELSE <<SubSeq(buffer, 1, ChunkSize)>> \o Chunks(SubSeq(buffer, ChunkSize + 1, Len(buffer)))

\* title / content values a request body may carry: empty, blank, one short
\* of the minimum, the minimum, and longer with blanks around
TitleInputs   == { Str(0, 0, 0), Str(1, 0, 0), Str(0, MinTitle - 1, 1),
                   Str(0, MinTitle, 0), Str(1, MinTitle + 1, 1) }
ContentInputs == { Str(0, 0, 0), Str(1, MinContent - 1, 1),
                   Str(0, MinContent, 0), Str(1, MinContent + 1, 0) }
Opt(S)        == {Absent} \cup { Some(x) : x \in S }

\* ------------------------------------------------------------------ state
VARIABLES
  posts,        \* the Post collection: id -> document
  nextPostId,   \* next _id the collection assigns
  files,        \* the bucket's uploads.files: id -> file document
  uploads,      \* open upload streams: id -> the file document being written
  nextFileId,   \* next ObjectId / random name an upload stream draws
  gridfsReady,  \* gfs and gridfsBucket of config/gridfs.js are set
  boot,         \* the bootstrap module: its start-up, its initialization
                \* guard and the requests passing through the guard
  limiter,      \* the rate limiters created, the clock they read, and the
                \* requests they passed on
  req           \* request slot -> the handler's position and locals, and
                \* once it ended (pc = "done") the answer it sent

vars  == <<posts, nextPostId, files, uploads, nextFileId, gridfsReady, boot, limiter, req>>
store == <<posts, nextPostId, files, uploads, nextFileId, gridfsReady, boot, limiter>>

\* A JSON body, or an update document: each key is present or not
NoBody == [ title |-> Absent, content |-> Absent, user_id |-> Absent, images |-> Absent ]

\* ----------------------------------------------------------- request slots
\* The locals of a handler between two awaits.  An ended request keeps its
\* answer until the slot takes the next request: the status the handler set
\* (0 when it threw `err` to the error handler instead), what it returned,
\* for a delete the image refs of the Post and the bucket deletes made, for
\* a download the stream opened, for a create the upload results of its
\* batch.
NoQuery      == [ page |-> Absent, limit |-> Absent ]
NoPagination == [ page |-> 0, limit |-> 0, total |-> 0, pages |-> 0 ]

IdleReq == [ pc |-> "idle", op |-> "none", header |-> Absent, user |-> "none", id |-> 0,
             body |-> NoBody, updates |-> NoBody, upfiles |-> <<>>, batch |-> <<>>,
             images |-> <<>>, i |-> 0, attempted |-> <<>>, caught |-> FALSE,
             opened |-> Absent, ctype |-> Absent, n |-> 0, sent |-> <<>>,
             query |-> NoQuery, pagination |-> NoPagination,
             found |-> Absent, count |-> Absent,
             status |-> 0, err |-> "", result |-> "none" ]

Answer(q, status, err, result) ==
  [ IdleReq EXCEPT !.pc = "done", !.op = q.op, !.header = q.header,
                   !.user = q.user, !.id = q.id,
                   !.images = q.images, !.batch = q.batch,
                   !.attempted = q.attempted, !.ctype = q.ctype, !.sent = q.sent,
                   !.caught = q.caught, !.opened = q.opened,
                   !.query = q.query, !.pagination = q.pagination,
                   !.found = q.found, !.count = q.count,
                   !.status = status, !.err = err, !.result = result ]

\* a new request in slot r
Started(op, user, id) == [IdleReq EXCEPT !.op = op, !.user = user, !.id = id]

\* the handler of slot r ends with an answer
Respond(r, q, status, err, result) ==
  req' = [req EXCEPT ![r] = Answer(q, status, err, result)]

\* the handler of slot r goes on to its next await as q
Continue(r, q) == req' = [req EXCEPT ![r] = q]

Free(r) == req[r].pc \in {"idle", "done"}

\* a request at the initialization middleware of the bootstrap
IdleGuard == [ pc |-> "idle", on |-> 0, status |-> 0 ]

\* the bootstrap module before anything ran: dbConnected / isInitialized
\* false, dbPromise / initializationPromise null, no handle assigned
BootOff == [ file |-> "none", serverless |-> FALSE, startup |-> "none",
             connected |-> FALSE, promise |-> 0,
             attempt |-> [k \in 1..MaxAttempts |-> "unused"],
             handle |-> 0,
             guard |-> [r \in Reqs |-> IdleGuard] ]

\* no limiter is created: the bootstraps and routers have theirs commented out
NoLimiter == [ now |-> 0, max |-> <<>>, requests |-> <<>>, passed |-> <<>>,
               last |-> [ limiter |-> 0, ip |-> "none", status |-> 0, flip |-> FALSE ] ]

InitStore ==
  /\ posts = <<>>
  /\ nextPostId = 1
  /\ files = <<>>
  /\ uploads = <<>>
  /\ nextFileId = 1
  /\ gridfsReady = FALSE
  /\ req = [r \in Reqs |-> IdleReq]

Init == InitStore /\ boot = BootOff /\ limiter = NoLimiter

\* ------------------------------------------------------- config/gridfs.js
\* initGridFS, once the connection is ready: sets gfs and gridfsBucket
InitGridFS ==
  /\ ~gridfsReady
  /\ gridfsReady' = TRUE
  /\ UNCHANGED <<posts, nextPostId, files, uploads, nextFileId, boot, limiter, req>>

\* a new process after a graceful shutdown (server.close lets the requests
\* in flight end): the module's gfs and gridfsBucket are unset again, the
\* database is as it was
Restart ==
  /\ gridfsReady
  /\ \A r \in Reqs : Free(r)
  /\ uploads = <<>>
  /\ gridfsReady' = FALSE
  /\ UNCHANGED <<posts, nextPostId, files, uploads, nextFileId, boot, limiter, req>>

\* getGridFS throws unless both handles are set
GetGridFSThrows == ~gridfsReady

\* -------------------------------------------------------- utils/response.js
StatusSuccess == 200
StatusCreated == 201

\* ------------------------------------------- statuses the handlers set
StatusBadRequest  == 400
StatusNotFound    == 404
StatusServerError == 500

\* ------------------------------------------------- the bootstrap modules
\* Two bootstrap files carry an initialization guard: ensureDbConnected of
\* one (file "part_000"), initializeApp of the other (file "part_002").
\* `serverless` says that the platform imports the module and serves the
\* requests (require.main is not the module, process.env.VERCEL is set).
BootFiles == {"part_000", "part_002"}

\* the middleware awaiting the guard: always in one file, under
\* process.env.VERCEL in the other
MiddlewareInstalled(b) == b.file = "part_000" \/ b.serverless

\* startServer runs when the module is the main one / outside Vercel
RunsStartServer(b) == ~b.serverless

\* requests reach the app once it listens, or through the platform
Serving(b) == b.serverless \/ b.startup = "listening"

StatusUnavailable == 503

\* initGridFS with the connection ready: new gfs and gridfsBucket objects
\* replace whatever the module held
InitGridFSRuns(b) == [b EXCEPT !.handle = @ + 1]

\* the module as it is loaded
Booted(file, serverless) ==
  LET b == [BootOff EXCEPT !.file = file, !.serverless = serverless]
  IN [b EXCEPT !.startup = IF RunsStartServer(b) THEN "connecting" ELSE "none"]

InitBoot == InitStore /\ limiter = NoLimiter /\ \E file \in BootFiles, sl \in BOOLEAN : boot = Booted(file, sl)

\* startServer: connectDB resolved, initGridFS, app.listen
StartServerListen ==
  /\ boot.startup = "connecting"
  /\ boot' = [InitGridFSRuns(boot) EXCEPT !.startup = "listening"]
  /\ gridfsReady' = TRUE
  /\ UNCHANGED <<posts, nextPostId, files, uploads, nextFileId, limiter, req>>

\* startServer: connectDB rejected, process.exit(1)
StartServerExit ==
  /\ boot.startup = "connecting"
  /\ boot' = [boot EXCEPT !.startup = "exited"]
  /\ UNCHANGED <<posts, nextPostId, files, uploads, nextFileId, gridfsReady, limiter, req>>

\* Mutant of GuardDecision: the pending promise is not looked at.
GuardDecisionNoPromise(b) ==
  IF b.connected THEN "pass" ELSE "start"

\* the synchronous part of the guard: ensureDbConnected tests dbConnected
\* and then dbPromise, initializeApp tests initializationPromise and then
\* isInitialized; else a new attempt starts
GuardDecision(b) ==
  IF b.file = "part_000"
  THEN IF b.connected THEN "pass" ELSE IF b.promise # 0 THEN "await" ELSE "start"
  ELSE IF b.promise # 0 THEN "await" ELSE IF b.connected THEN "pass" ELSE "start"

FreeGuard(b, r) == b.guard[r].pc \in {"idle", "done"}
NewAttempts(b)  == { k \in 1..MaxAttempts : b.attempt[k] = "unused" }

\* a request enters the app: without the middleware it goes to the routes,
\* else it awaits the guard, which may start the attempt
GuardEnter(r) ==
  /\ Serving(boot) /\ boot.startup # "exited"
  /\ FreeGuard(boot, r)
  /\ IF ~MiddlewareInstalled(boot)
     THEN boot' = [boot EXCEPT !.guard[r] = [IdleGuard EXCEPT !.pc = "handler"]]
     ELSE LET d == GuardDecision(boot)
          IN IF d = "pass"
             THEN boot' = [boot EXCEPT !.guard[r] = [IdleGuard EXCEPT !.pc = "passed"]]
             ELSE IF d = "await"
             THEN boot' = [boot EXCEPT !.guard[r] = [IdleGuard EXCEPT !.pc = "await",
                                                                     !.on = boot.promise]]
             ELSE /\ NewAttempts(boot) # {}
                  /\ LET k == CHOOSE k \in NewAttempts(boot) :
                                 \A j \in NewAttempts(boot) : k <= j
                     IN boot' = [boot EXCEPT !.promise = k, !.attempt[k] = "pending",
                                   !.guard[r] = [IdleGuard EXCEPT !.pc = "await", !.on = k]]
  /\ UNCHANGED <<posts, nextPostId, files, uploads, nextFileId, gridfsReady, limiter, req>>

\* the attempt's connectDB resolved: initGridFS, then the flag is set
AttemptConnect(k) ==
  /\ boot.attempt[k] = "pending"
  /\ boot' = [InitGridFSRuns(boot) EXCEPT !.connected = TRUE, !.attempt[k] = "resolved"]
  /\ gridfsReady' = TRUE
  /\ UNCHANGED <<posts, nextPostId, files, uploads, nextFileId, limiter, req>>

\* Mutant of AttemptFail: the catch does not reset the promise variable.
AttemptFailKeepsPromise(k) ==
  /\ boot.attempt[k] = "pending"
  /\ boot' = [boot EXCEPT !.attempt[k] = "rejected"]
  /\ UNCHANGED <<posts, nextPostId, files, uploads, nextFileId, gridfsReady, limiter, req>>

\* the attempt's connectDB rejected: the promise variable is reset to null
\* and the attempt's promise rejects
AttemptFail(k) ==
  /\ boot.attempt[k] = "pending"
  /\ boot' = [boot EXCEPT !.promise = 0, !.attempt[k] = "rejected"]
  /\ UNCHANGED <<posts, nextPostId, files, uploads, nextFileId, gridfsReady, limiter, req>>

\* Mutant of AfterGuard: next() is called whatever the guard's outcome.
AfterGuardAlwaysNext(g, outcome) == [g EXCEPT !.pc = "handler"]

\* the middleware after its await: next() when the guard resolved, 503
\* when it rejected
AfterGuard(g, outcome) ==
  IF outcome = "resolved" THEN [g EXCEPT !.pc = "handler"]
  ELSE [g EXCEPT !.pc = "done", !.status = StatusUnavailable]

\* the awaited guard settled, the middleware goes on
GuardResume(r) ==
  /\ \/ /\ boot.guard[r].pc = "await"
        /\ boot.attempt[boot.guard[r].on] \in {"resolved", "rejected"}
        /\ boot' = [boot EXCEPT !.guard[r] = AfterGuard(@, boot.attempt[boot.guard[r].on])]
     \/ /\ boot.guard[r].pc = "passed"
        /\ boot' = [boot EXCEPT !.guard[r] = AfterGuard(@, "resolved")]
  /\ UNCHANGED <<posts, nextPostId, files, uploads, nextFileId, gridfsReady, limiter, req>>

\* an API route handler runs for the request and answers; whether its
\* getGridFS would have thrown is kept in the answer
RouteHandler(r) ==
  /\ boot.guard[r].pc = "handler"
  /\ boot' = [boot EXCEPT !.guard[r] = [@ EXCEPT !.pc = "done",
                 !.status = IF GetGridFSThrows THEN StatusServerError ELSE StatusSuccess]]
  /\ UNCHANGED <<posts, nextPostId, files, uploads, nextFileId, gridfsReady, limiter, req>>

\* one process of a bootstrap module and the requests it takes
NextBoot ==
  \/ StartServerListen
  \/ StartServerExit
  \/ \E r \in Reqs : GuardEnter(r)
  \/ \E k \in 1..MaxAttempts : AttemptConnect(k)
  \/ \E k \in 1..MaxAttempts : AttemptFail(k)
  \/ \E r \in Reqs : GuardResume(r)
  \/ \E r \in Reqs : RouteHandler(r)

SpecBoot == InitBoot /\ [][NextBoot]_vars

\* connectDB settles, and the event loop runs every continuation that is
\* ready: the middleware after its await, the handler after next()
AttemptSettles == \E k \in 1..MaxAttempts : AttemptConnect(k) \/ AttemptFail(k)

SpecBootFair ==
  /\ SpecBoot
  /\ WF_vars(AttemptSettles)
  /\ \A r \in Reqs : WF_vars(GuardResume(r)) /\ WF_vars(RouteHandler(r))

\* ------------------------------------------------------ utils/fileUpload.js
\* What uploadToGridFS resolves with for a file whose stream drew `fid` as
\* its id and as the random part of its name.
UploadResult(file, fid) ==
  [ id |-> fid, filename |-> fid, contentType |-> file.mimetype, size |-> Len(file.buffer) ]

\* The file document the upload stream writes when it finishes.
UploadDoc(file, fid, userId) ==
  [ filename |-> fid, length |-> Len(file.buffer), chunks |-> Chunks(file.buffer),
    contentType |-> Absent,
    metadata |-> [ contentType |-> Some(file.mimetype), uploadedBy |-> userId ] ]

\* the ids of the files of a batch
BatchIds(q) == { q.batch[j].id : j \in 1..Len(q.batch) }

\* the 'finish' event of an upload stream: the object becomes visible and
\* the file's promise resolves
UploadFinish(f) ==
  /\ f \in DOMAIN uploads
  /\ uploads' = [g \in DOMAIN uploads \ {f} |-> uploads[g]]
  /\ files' = [g \in DOMAIN files \cup {f} |-> IF g = f THEN uploads[f] ELSE files[g]]
  /\ UNCHANGED <<posts, nextPostId, nextFileId, gridfsReady, boot, limiter, req>>

\* Mutant of UploadError: the rejection of one file's promise does not
\* reject the batch (Promise.allSettled instead of Promise.all).
UploadErrorIgnored(f) ==
  /\ f \in DOMAIN uploads
  /\ uploads' = [g \in DOMAIN uploads \ {f} |-> uploads[g]]
  /\ UNCHANGED <<posts, nextPostId, files, nextFileId, gridfsReady, boot, limiter, req>>

\* Mutant of UploadError: the failed batch is rolled back, the objects its
\* other uploads stored are deleted.
UploadErrorRollback(f) ==
  /\ f \in DOMAIN uploads
  /\ uploads' = [g \in DOMAIN uploads \ {f} |-> uploads[g]]
  /\ IF \E r \in Reqs : req[r].pc = "uploading" /\ f \in BatchIds(req[r])
     THEN LET r == CHOOSE r \in Reqs : req[r].pc = "uploading" /\ f \in BatchIds(req[r])
          IN /\ Respond(r, req[r], 0, "Error", "none")
             /\ files' = [g \in DOMAIN files \ BatchIds(req[r]) |-> files[g]]
     ELSE UNCHANGED <<req, files>>
  /\ UNCHANGED <<posts, nextPostId, nextFileId, gridfsReady, boot, limiter>>

\* the 'error' event of an upload stream: no object is written, the file's
\* promise rejects, and with it the Promise.all a handler still awaits: that
\* handler throws at once, the other streams of its batch stay open
UploadError(f) ==
  /\ f \in DOMAIN uploads
  /\ uploads' = [g \in DOMAIN uploads \ {f} |-> uploads[g]]
  /\ IF \E r \in Reqs : req[r].pc = "uploading" /\ f \in BatchIds(req[r])
     THEN LET r == CHOOSE r \in Reqs : req[r].pc = "uploading" /\ f \in BatchIds(req[r])
          IN Respond(r, req[r], 0, "Error", "none")
     ELSE UNCHANGED req
  /\ UNCHANGED <<posts, nextPostId, files, nextFileId, gridfsReady, boot, limiter>>

\* ------------------------------------- services/postService.js: createPost
\* createPost's checks on the body: "" when they pass
CreateError(title, content) ==
  IF ~Truthy(title) \/ ~Truthy(content) THEN "ValidationError"
  ELSE IF Len(Trim(Get(title))) < MinTitle THEN "ValidationError"
  ELSE IF Len(Trim(Get(content))) < MinContent THEN "ValidationError"
  ELSE ""

\* Mutant of PostPayload: the images are attached only to a batch of more
\* than one file.
PostPayloadOffByOne(title, content, userId, results) ==
  [ title |-> Trim(Get(title)), content |-> Trim(Get(content)), user_id |-> userId,
    images |-> IF Len(results) > 1
               THEN [ k \in 1..Len(results) |->
                        [ fileId |-> results[k].id, filename |-> results[k].filename,
                          contentType |-> results[k].contentType, size |-> results[k].size ] ]
               ELSE <<>> ]

\* files.map(file => ({fileId, filename, contentType, size}))
ImageRefs(results) ==
  [ k \in 1..Len(results) |->
      [ fileId |-> results[k].id, filename |-> results[k].filename,
        contentType |-> results[k].contentType, size |-> results[k].size ] ]

\* the document createPost hands to Post.create; without files the images
\* key is left out and the schema's array default, [], applies
PostPayload(title, content, userId, results) ==
  [ title |-> Trim(Get(title)), content |-> Trim(Get(content)), user_id |-> userId,
    images |-> IF Len(results) > 0 THEN ImageRefs(results) ELSE <<>> ]

\* postSchema: title and content are required strings
SchemaRequired(s) == s # <<>>

\* Post.create runs the schema's validators on the document
CreateSchemaError(doc) ==
  IF SchemaRequired(doc.title) /\ SchemaRequired(doc.content) THEN "" ELSE "MongooseValidationError"

\* PostService.createPost(postData, userId, files) and the handler's answer
CreatePost(r) ==
  LET q   == req[r]
      e   == CreateError(q.body.title, q.body.content)
      doc == PostPayload(q.body.title, q.body.content, q.user, q.batch)
      e2  == IF e # "" THEN e ELSE CreateSchemaError(doc)
  IN IF e2 # ""
     THEN /\ Respond(r, q, 0, e2, "none")
          /\ UNCHANGED <<posts, nextPostId>>
     ELSE /\ posts' = [p \in DOMAIN posts \cup {nextPostId} |->
                         IF p = nextPostId THEN doc ELSE posts[p]]
          /\ nextPostId' = nextPostId + 1
          /\ Respond(r, [q EXCEPT !.id = nextPostId, !.images = doc.images],
                     StatusCreated, "", "post")

\* ------------------------------------------- POST /api/posts (post router)
\* POST requests that may still create a Post
Creating == { r \in Reqs : req[r].pc = "uploading" }

\* authenticate, upload.array('images', 5), uploadMultipleToGridFS: every
\* uploadToGridFS of the batch runs at once, each stream drawing its id and
\* name when it is opened; a throw of getGridFS rejects the batch.
\* maxPost and maxFile cap the ids the model hands out.
PostStart(r, header, user, body, fs, maxPost, maxFile) ==
  /\ Len(fs) <= UploadLimit
  /\ nextPostId + Cardinality(Creating) <= maxPost
  /\ LET q == [Started("POST", user, 0) EXCEPT !.header = header, !.body = body,
                                               !.upfiles = fs]
     IN IF Len(fs) > 0 /\ GetGridFSThrows
        THEN /\ Respond(r, q, 0, "Error", "none")
             /\ UNCHANGED <<uploads, nextFileId>>
        ELSE LET ids == nextFileId .. (nextFileId + Len(fs) - 1)
             IN /\ nextFileId + Len(fs) - 1 <= maxFile
                /\ nextFileId' = nextFileId + Len(fs)
                /\ uploads' = [f \in DOMAIN uploads \cup ids |->
                                 IF f \in ids THEN UploadDoc(fs[f - nextFileId + 1], f, user)
                                 ELSE uploads[f]]
                /\ Continue(r, [q EXCEPT !.pc = "uploading",
                                         !.batch = [j \in 1..Len(fs) |->
                                                      UploadResult(fs[j], nextFileId + j - 1)]])
  /\ UNCHANGED <<posts, nextPostId, files, gridfsReady, boot, limiter>>

\* a POST of an authenticated user arrives
PostReceive(r, user, body, fs, maxPost, maxFile) ==
  Free(r) /\ PostStart(r, Absent, user, body, fs, maxPost, maxFile)

\* Promise.all resolved (at once for an empty batch): every stream of the
\* batch finished, createPost runs
PostCreate(r) ==
  /\ req[r].pc = "uploading"
  /\ BatchIds(req[r]) \cap DOMAIN uploads = {}
  /\ CreatePost(r)
  /\ UNCHANGED <<files, uploads, nextFileId, gridfsReady, boot, limiter>>

\* ------------------------------------- services/postService.js: updatePost
\* validateObjectId
IdError(id) == IF id = BadId THEN "ValidationError" ELSE ""

\* Mutant of UpdateError: the patch is checked before the owner.
UpdateErrorValidateFirst(id, body, user) ==
  IF id \notin DOMAIN posts THEN "NotFoundError"
  ELSE IF Truthy(body.title) /\ Len(Trim(Get(body.title))) < MinTitle THEN "ValidationError"
  ELSE IF Truthy(body.content) /\ Len(Trim(Get(body.content))) < MinContent THEN "ValidationError"
  ELSE IF posts[id].user_id # user THEN "AuthorizationError"
  ELSE ""

\* after findById: the NotFound and ownership checks, then the checks on
\* the patch, in the order of the code: "" when all pass
UpdateError(id, body, user) ==
  IF id \notin DOMAIN posts THEN "NotFoundError"
  ELSE IF posts[id].user_id # user THEN "AuthorizationError"
  ELSE IF Truthy(body.title) /\ Len(Trim(Get(body.title))) < MinTitle THEN "ValidationError"
  ELSE IF Truthy(body.content) /\ Len(Trim(Get(body.content))) < MinContent THEN "ValidationError"
  ELSE ""

\* Mutant of AllowedUpdates: the whole patch is merged into the document.
MergeWholePatch(body) ==
  [ body EXCEPT !.title   = IF body.title # Absent THEN Some(Trim(Get(body.title))) ELSE Absent,
                !.content = IF body.content # Absent THEN Some(Trim(Get(body.content))) ELSE Absent ]

\* allowedUpdates.forEach: the update document holds the trimmed title and
\* content that are not undefined, and nothing else of the patch
AllowedUpdates(body) ==
  [ NoBody EXCEPT !.title   = IF body.title # Absent THEN Some(Trim(Get(body.title))) ELSE Absent,
                  !.content = IF body.content # Absent THEN Some(Trim(Get(body.content))) ELSE Absent ]

\* Mutant of UpdateSchemaError: findByIdAndUpdate without runValidators.
NoUpdateValidators(up) == ""

\* runValidators: true - the schema's validators on the paths being set
UpdateSchemaError(up) ==
  IF \/ (up.title # Absent /\ ~SchemaRequired(Get(up.title)))
     \/ (up.content # Absent /\ ~SchemaRequired(Get(up.content)))
  THEN "MongooseValidationError" ELSE ""

\* the document after $set of the update document's keys
ApplyUpdates(post, up) ==
  [ title   |-> IF up.title # Absent THEN Get(up.title) ELSE post.title,
    content |-> IF up.content # Absent THEN Get(up.content) ELSE post.content,
    user_id |-> IF up.user_id # Absent THEN Get(up.user_id) ELSE post.user_id,
    images  |-> IF up.images # Absent THEN Get(up.images) ELSE post.images ]

\* PATCH /api/posts/:id after authenticate: updatePost up to findById
PatchStart(r, header, user, id, body) ==
  /\ LET q == [Started("PATCH", user, id) EXCEPT !.header = header, !.body = body]
     IN IF IdError(id) # ""
        THEN Respond(r, q, 0, IdError(id), "none")
        ELSE Continue(r, [q EXCEPT !.pc = "updLoad"])
  /\ UNCHANGED store

\* a PATCH of an authenticated user arrives
PatchReceive(r, user, id, body) == Free(r) /\ PatchStart(r, Absent, user, id, body)

\* findById answered: updatePost up to the call of findByIdAndUpdate
PatchLoad(r) ==
  /\ req[r].pc = "updLoad"
  /\ LET q == req[r]
         e == UpdateError(q.id, q.body, q.user)
     IN IF e # ""
        THEN Respond(r, q, 0, e, "none")
        ELSE Continue(r, [q EXCEPT !.pc = "updWrite", !.updates = AllowedUpdates(q.body)])
  /\ UNCHANGED store

\* Post.findByIdAndUpdate(postId, updates, {new, runValidators}) and the
\* handler's answer; null is returned when no document has the id
PatchWrite(r) ==
  /\ req[r].pc = "updWrite"
  /\ LET q == req[r]
         e == UpdateSchemaError(q.updates)
     IN IF e # ""
        THEN /\ Respond(r, q, 0, e, "none")
             /\ UNCHANGED posts
        ELSE IF q.id \notin DOMAIN posts
        THEN /\ Respond(r, q, StatusSuccess, "", "null")
             /\ UNCHANGED posts
        ELSE /\ posts' = [posts EXCEPT ![q.id] = ApplyUpdates(posts[q.id], q.updates)]
             /\ Respond(r, q, StatusSuccess, "", "post")
  /\ UNCHANGED <<nextPostId, files, uploads, nextFileId, gridfsReady, boot, limiter>>

\* ------------------------------------- services/postService.js: deletePost
\* after findById: the NotFound and ownership checks: "" when both pass
DeleteError(id, user) ==
  IF id \notin DOMAIN posts THEN "NotFoundError"
  ELSE IF posts[id].user_id # user THEN "AuthorizationError"
  ELSE ""

\* DELETE /api/posts/:id after authenticate: deletePost up to findById
DeleteStart(r, header, user, id) ==
  /\ LET q == [Started("DELETE", user, id) EXCEPT !.header = header]
     IN IF IdError(id) # ""
        THEN Respond(r, q, 0, IdError(id), "none")
        ELSE Continue(r, [q EXCEPT !.pc = "delLoad"])
  /\ UNCHANGED store

\* a DELETE of an authenticated user arrives
DeleteReceive(r, user, id) == Free(r) /\ DeleteStart(r, Absent, user, id)

\* findById answered: deletePost up to its next bucket or collection call;
\* with images, getGridFS and the first gridfsBucket.delete, and a throw of
\* getGridFS lands in the catch
DeleteLoad(r) ==
  /\ req[r].pc = "delLoad"
  /\ LET q == req[r]
         e == DeleteError(q.id, q.user)
     IN IF e # "" THEN Respond(r, q, 0, e, "none")
        ELSE IF Len(posts[q.id].images) = 0
        THEN Continue(r, [q EXCEPT !.pc = "delRecord"])
        ELSE IF GetGridFSThrows
        THEN Continue(r, [q EXCEPT !.pc = "delRecord", !.images = posts[q.id].images,
                                   !.caught = TRUE])
        ELSE Continue(r, [q EXCEPT !.pc = "delImages", !.images = posts[q.id].images,
                                   !.i = 1])
  /\ UNCHANGED store

\* Mutant of AfterImageDelete: the catch rethrows, so a failed image delete
\* ends deletePost before the Post record is removed.
AfterImageDeleteRethrow(q, threw) ==
  IF threw THEN [q EXCEPT !.pc = "thrown", !.caught = TRUE]
  ELSE IF q.i < Len(q.images) THEN [q EXCEPT !.i = q.i + 1]
  ELSE [q EXCEPT !.pc = "delRecord"]

\* Mutant of AfterImageDelete: the loop ends after its first image.
AfterImageDeleteFirstOnly(q, threw) ==
  IF threw THEN [q EXCEPT !.pc = "delRecord", !.caught = TRUE]
  ELSE [q EXCEPT !.pc = "delRecord"]

\* where the loop over post.images goes after the delete of image i: to the
\* next image, and to the catch block, which ends the loop, when it threw
AfterImageDelete(q, threw) ==
  IF threw THEN [q EXCEPT !.pc = "delRecord", !.caught = TRUE]
  ELSE IF q.i < Len(q.images) THEN [q EXCEPT !.i = q.i + 1]
  ELSE [q EXCEPT !.pc = "delRecord"]

\* await gridfsBucket.delete(image.fileId): removes the object, and throws
\* when no object has the id
DeleteImage(r) ==
  /\ req[r].pc = "delImages"
  /\ LET f == req[r].images[req[r].i].fileId
         q == [req[r] EXCEPT !.attempted = Append(@, f)]
     IN /\ files' = [g \in DOMAIN files \ {f} |-> files[g]]
        /\ Continue(r, AfterImageDelete(q, f \notin DOMAIN files))
  /\ UNCHANGED <<posts, nextPostId, uploads, nextFileId, gridfsReady, boot, limiter>>

\* await Post.findByIdAndDelete(postId), then the success answer
DeleteRecord(r) ==
  /\ req[r].pc = "delRecord"
  /\ posts' = [p \in DOMAIN posts \ {req[r].id} |-> posts[p]]
  /\ Respond(r, req[r], StatusSuccess, "", "deleted")
  /\ UNCHANGED <<nextPostId, files, uploads, nextFileId, gridfsReady, boot, limiter>>

\* ------------------------------------------------- middlewares/auth.js
Bearer == <<"B", "e", "a", "r", "e", "r", " ">>

\* what follows the first blank of a string, if there is one
RECURSIVE AfterSpace(_)
AfterSpace(s) ==
  IF s = <<>> THEN Absent
  ELSE IF Head(s) = " " THEN Some(Tail(s)) ELSE AfterSpace(Tail(s))

\* a string up to its first blank
RECURSIVE UpToSpace(_)
UpToSpace(s) ==
  IF s = <<>> \/ Head(s) = " " THEN <<>> ELSE <<Head(s)>> \o UpToSpace(Tail(s))

\* authHeader.split(' ')[1]
SplitSecond(s) ==
  IF AfterSpace(s) = Absent THEN Absent ELSE Some(UpToSpace(Get(AfterSpace(s))))

\* AuthService.verifyToken: the payload's _id of a token that verifies with
\* the secret, nothing for a token that does not (it throws).  Tokens "1"
\* and "2" were issued to u1 and u2, "0" to a user since removed.
Decoded(token) ==
  IF token = <<"1">> THEN Some("u1")
  ELSE IF token = <<"2">> THEN Some("u2")
  ELSE IF token = <<"0">> THEN Some("u0")
  ELSE Absent

\* Mutant of UserFound: the user of the token is not looked up.
UserFoundAlways(id) == TRUE

\* AuthService.getUserById: User.findById finds a document
UserFound(id) == id \in Users

\* authenticate up to the call of getUserById: "" when the header is a
\* Bearer token that verifies
AuthHeaderError(header) ==
  IF ~Truthy(header) \/ ~StartsWith(Get(header), Bearer) THEN "AuthenticationError"
  ELSE IF ~Truthy(SplitSecond(Get(header))) THEN "AuthenticationError"
  ELSE IF Decoded(Get(SplitSecond(Get(header)))) = Absent THEN "AuthenticationError"
  ELSE ""

\* a request to a route behind authenticate arrives: the checks of the
\* header and of the token, then the await of getUserById
AuthReceive(r, op, header, id, body, fs, maxPost, maxFile) ==
  /\ Free(r)
  /\ op = "POST" => nextPostId <= maxPost /\ nextFileId + Len(fs) - 1 <= maxFile
  /\ LET q == [Started(op, "none", id) EXCEPT !.header = header, !.body = body,
                                              !.upfiles = fs]
     IN IF AuthHeaderError(header) # ""
        THEN Respond(r, q, 0, AuthHeaderError(header), "none")
        ELSE Continue(r, [q EXCEPT !.pc = "auth"])
  /\ UNCHANGED store

\* getUserById answered: AuthenticationError when no user has the id, else
\* req.user is attached and next() runs the route's handler
AuthLoad(r, maxPost, maxFile) ==
  /\ req[r].pc = "auth"
  /\ LET q  == req[r]
         id == Get(Decoded(Get(SplitSecond(Get(q.header)))))
     IN IF ~UserFound(id)
        THEN Respond(r, q, 0, "AuthenticationError", "none") /\ UNCHANGED store
        ELSE IF q.op = "POST"
        THEN PostStart(r, q.header, id, q.body, q.upfiles, maxPost, maxFile)
        ELSE IF q.op = "PATCH"
        THEN PatchStart(r, q.header, id, q.id, q.body)
        ELSE DeleteStart(r, q.header, id, q.id)

\* --------------------------------------------- middlewares/security.js
Limiters == 1..MaxLimiters
IPs      == {"ip1", "ip2"}

StatusTooMany == 429

\* createRateLimiter(maxRequests): a closure over a new, empty Map
CreateRateLimiter(maxes) ==
  [ NoLimiter EXCEPT !.max = maxes,
                     !.requests = [ l \in Limiters |-> <<>> ],
                     !.passed = [ l \in Limiters |-> [ ip \in IPs |-> <<>> ] ] ]

\* requests.has(ip) / requests.get(ip), after the [] set for a new ip
RequestLog(map, ip) == IF ip \in DOMAIN map THEN map[ip] ELSE <<>>

\* requests.set(ip, log)
MapSet(map, ip, log) ==
  [ k \in DOMAIN map \cup {ip} |-> IF k = ip THEN log ELSE map[k] ]

\* requestLog.filter((timestamp) => timestamp > windowStart)
RecentRequests(log, windowStart) ==
  SelectSeq(log, LAMBDA timestamp : timestamp > windowStart)

\* Mutant of LimitExceeded: the limit is passed by one.
LimitExceededAbove(n, maxRequests) == n > maxRequests

\* recentRequests.length >= maxRequests
LimitExceeded(n, maxRequests) == n >= maxRequests

\* the middleware of limiter l for a request of ip at Date.now(): 429, or
\* the request is logged and next() is called
RateLimit(l, ip) ==
  LET now    == limiter.now
      recent == RecentRequests(RequestLog(limiter.requests[l], ip), now - WindowMs)
      reject == LimitExceeded(Len(recent), limiter.max[l])
      log    == IF reject THEN recent ELSE Append(recent, now)
  IN /\ limiter' =
          [ limiter EXCEPT
              !.requests[l] = MapSet(@, ip, log),
              !.passed[l][ip] = IF reject THEN @ ELSE Append(@, now),
              !.last = [ limiter |-> l, ip |-> ip,
                         status |-> IF reject THEN StatusTooMany ELSE 0,
                         flip |-> ~limiter.last.flip ] ]
     /\ UNCHANGED <<posts, nextPostId, files, uploads, nextFileId, gridfsReady, boot, req>>

\* a millisecond passes
Tick ==
  /\ limiter.now < MaxClock
  /\ limiter' = [ limiter EXCEPT !.now = @ + 1 ]
  /\ UNCHANGED <<posts, nextPostId, files, uploads, nextFileId, gridfsReady, boot, req>>

\* --------------------------------------------- middlewares/validate.js
DefaultPage  == 1
DefaultLimit == 10
MaxLimit     == 100

DigitChars == <<"0", "1", "2", "3", "4", "5", "6", "7", "8", "9">>
IsDigit(c) == \E d \in 1..Len(DigitChars) : DigitChars[d] = c
DigitValue(c) == (CHOOSE d \in 1..Len(DigitChars) : DigitChars[d] = c) - 1

\* the digits a string starts with
RECURSIVE LeadingDigits(_)
LeadingDigits(s) ==
  IF s = <<>> \/ ~IsDigit(Head(s)) THEN <<>>
  ELSE <<Head(s)>> \o LeadingDigits(Tail(s))

RECURSIVE Decimal(_)
Decimal(d) ==
  IF d = <<>> THEN 0
  ELSE 10 * Decimal(SubSeq(d, 1, Len(d) - 1)) + DigitValue(d[Len(d)])

\* parseInt of a query parameter: leading blanks are skipped, a sign is
\* read, then the decimal digits up to the first other character; NaN
\* (here: nothing) when there is no digit or no parameter
ParseInt(o) ==
  IF o = Absent THEN Absent
  ELSE LET t == TrimStart(Get(o))
           signed == t # <<>> /\ Head(t) \in {"-", "+"}
           d == LeadingDigits(IF signed THEN Tail(t) ELSE t)
       IN IF d = <<>> THEN Absent
          ELSE Some(IF signed /\ Head(t) = "-" THEN 0 - Decimal(d) ELSE Decimal(d))

\* parseInt(x) || dflt: NaN and 0 are falsy
OrDefault(v, dflt) == IF v = Absent \/ Get(v) = 0 THEN dflt ELSE Get(v)

\* validatePagination: req.pagination, or nothing when it throws
ValidatePagination(query) ==
  LET page  == OrDefault(ParseInt(query.page), DefaultPage)
      limit == OrDefault(ParseInt(query.limit), DefaultLimit)
  IN IF page < 1 THEN Absent
     ELSE IF limit < 1 \/ limit > MaxLimit THEN Absent
     ELSE Some([page |-> page, limit |-> limit])

\* ----------------- services/postService.js: getAllPosts, getPostsByUser
\* the filter of find and countDocuments: {} or {user_id: userId}
Matching(op, user) ==
  { id \in DOMAIN posts : op = "LISTALL" \/ posts[id].user_id = user }

\* createdAt of a Post: ids are drawn in the order of creation
CreatedAt(id) == id

\* .sort({createdAt: -1})
RECURSIVE SortDesc(_)
SortDesc(S) ==
  IF S = {} THEN <<>>
  ELSE LET m == CHOOSE x \in S : \A y \in S : CreatedAt(y) <= CreatedAt(x)
       IN <<m>> \o SortDesc(S \ {m})

Skip(s, n)  == SubSeq(s, n + 1, Len(s))
Limit(s, n) == SubSeq(s, 1, IF n < Len(s) THEN n ELSE Len(s))

\* Mutant of FindPage: the skip is page * limit.
FindPageSkipsPage(S, page, limit) == Limit(Skip(SortDesc(S), page * limit), limit)

\* find(filter).sort({createdAt: -1}).skip((page - 1) * limit).limit(limit)
FindPage(S, page, limit) == Limit(Skip(SortDesc(S), (page - 1) * limit), limit)

\* Math.ceil(total / limit)
Ceil(total, limit) ==
  IF total % limit = 0 THEN total \div limit ELSE (total \div limit) + 1

\* GET /all or GET / arrives from an authenticated user: validatePagination,
\* then the handler calls the service, which issues find and countDocuments
ListReceive(r, op, user, query) ==
  /\ Free(r)
  /\ LET q == [Started(op, user, 0) EXCEPT !.query = query]
         v == ValidatePagination(query)
     IN IF v = Absent
        THEN Respond(r, q, 0, "ValidationError", "none")
        ELSE Continue(r, [q EXCEPT !.pc = "listing",
                                   !.pagination.page = Get(v).page,
                                   !.pagination.limit = Get(v).limit])
  /\ UNCHANGED store

\* Promise.all resolves once both queries answered: the service returns
\* the page and the pagination, the handler answers success
ListDone(r, q) ==
  IF q.found # Absent /\ q.count # Absent
  THEN Respond(r, [q EXCEPT !.pagination.total = Get(q.count),
                            !.pagination.pages = Ceil(Get(q.count), q.pagination.limit)],
               StatusSuccess, "", "page")
  ELSE Continue(r, q)

\* the find query is answered from the collection
ListFind(r) ==
  /\ req[r].pc = "listing"
  /\ req[r].found = Absent
  /\ LET q == req[r]
     IN ListDone(r, [q EXCEPT !.found = Some(FindPage(Matching(q.op, q.user),
                                                      q.pagination.page,
                                                      q.pagination.limit))])
  /\ UNCHANGED store

\* the countDocuments query is answered from the collection
ListCount(r) ==
  /\ req[r].pc = "listing"
  /\ req[r].count = Absent
  /\ LET q == req[r]
     IN ListDone(r, [q EXCEPT !.count = Some(Cardinality(Matching(q.op, q.user)))])
  /\ UNCHANGED store

\* ----------------------------------------- GET /api/posts/image/:filename
\* file.metadata?.contentType || file.contentType || 'image/jpeg'
ResolvedType(file) ==
  IF Truthy(file.metadata.contentType) THEN Get(file.metadata.contentType)
  ELSE IF Truthy(file.contentType) THEN Get(file.contentType)
  ELSE ImageJpeg

\* Mutant of IsImage: the prefix is tested without its slash.
IsImageNoSlash(contentType) == StartsWith(contentType, ImageWord)

\* contentType.startsWith('image/')
IsImage(contentType) == StartsWith(contentType, ImagePrefix)

\* gridfsBucket.find({ filename }).toArray()
FindByName(name) == { f \in DOMAIN files : files[f].filename = name }

\* the by-name handler up to find: getGridFS may throw
GetByNameReceive(r, name) ==
  /\ Free(r)
  /\ LET q == Started("GETNAME", "none", name)
     IN IF GetGridFSThrows THEN Respond(r, q, 0, "Error", "none")
        ELSE Continue(r, [q EXCEPT !.pc = "find"])
  /\ UNCHANGED store

\* whether the by-name handler streams the file found
NameGate(file) == IsImage(ResolvedType(file))

\* find answered: 404 for no match and for a match that is not an image,
\* else the download stream is opened by name
GetByNameFind(r) ==
  /\ req[r].pc = "find"
  /\ req[r].op = "GETNAME"
  /\ LET q == req[r]
         found == FindByName(q.id)
     IN IF found = {} THEN Respond(r, q, StatusNotFound, "", "none")
        ELSE LET f == CHOOSE g \in found : TRUE
             IN IF NameGate(files[f])
                THEN Continue(r, [q EXCEPT !.pc = "stream", !.opened = Some(f),
                                           !.ctype = Some(ResolvedType(files[f]))])
                ELSE Respond(r, q, StatusNotFound, "", "none")
  /\ UNCHANGED store

\* --------------------------------------------- GET /api/posts/image/id/:id
\* the by-id handler up to find: getGridFS may throw, a malformed id is 400
GetByIdReceive(r, id) ==
  /\ Free(r)
  /\ LET q == Started("GETID", "none", id)
     IN IF GetGridFSThrows THEN Respond(r, q, 0, "Error", "none")
        ELSE IF id = BadId THEN Respond(r, q, StatusBadRequest, "", "none")
        ELSE Continue(r, [q EXCEPT !.pc = "find"])
  /\ UNCHANGED store

\* whether the by-id handler streams the file found: it has no check
IdGate(file) == TRUE

\* find answered: 404 for no match, else the download stream is opened
GetByIdFind(r) ==
  /\ req[r].pc = "find"
  /\ req[r].op = "GETID"
  /\ LET q == req[r]
     IN IF q.id \notin DOMAIN files THEN Respond(r, q, StatusNotFound, "", "none")
        ELSE IF IdGate(files[q.id])
        THEN Continue(r, [q EXCEPT !.pc = "stream", !.opened = Some(q.id),
                                   !.ctype = Some(ResolvedType(files[q.id]))])
        ELSE Respond(r, q, StatusNotFound, "", "none")
  /\ UNCHANGED store

\* downloadStream.pipe(res): the next chunk of the object reaches the
\* response, and with the first one the headers are sent
StreamChunk(r) ==
  /\ req[r].pc = "stream"
  /\ Get(req[r].opened) \in DOMAIN files
  /\ LET chunks == files[Get(req[r].opened)].chunks
     IN /\ req[r].n < Len(chunks)
        /\ Continue(r, [req[r] EXCEPT !.n = @ + 1, !.sent = @ \o chunks[req[r].n + 1]])
  /\ UNCHANGED store

\* the download stream ends after the last chunk, pipe ends the response
StreamEnd(r) ==
  /\ req[r].pc = "stream"
  /\ Get(req[r].opened) \in DOMAIN files
  /\ req[r].n = Len(files[Get(req[r].opened)].chunks)
  /\ Respond(r, req[r], StatusSuccess, "", "stream")
  /\ UNCHANGED store

\* res.headersSent: the first write of pipe sent the headers
HeadersSent(q) == q.n > 0

\* the 'error' handler of the download stream: 500 unless the headers are
\* sent; pipe does not end the response of a source that failed, and
\* nothing else does
AfterStreamError(q) ==
  IF ~HeadersSent(q) THEN Answer(q, StatusServerError, "", "none")
  ELSE [q EXCEPT !.pc = "open"]

\* downloadStream 'error': the object, or its next chunk, is gone
StreamError(r) ==
  /\ req[r].pc = "stream"
  /\ Get(req[r].opened) \notin DOMAIN files
  /\ Continue(r, AfterStreamError(req[r]))
  /\ UNCHANGED store

\* ------------------------------------------------------------ the system
\* the files multer hands over: mimetype and buffer length of each
FileInputs(types) == [ mimetype : types, buffer : Buffers(MaxSize) ]
BatchesOf(inputs, n) == UNION { [1..k -> inputs] : k \in 0..n }
Batches(types, n) == BatchesOf(FileInputs(types), n)

\* a buffer that takes more than one chunk
LongBuffer == [ k \in 1..(ChunkSize + 1) |-> k % (MaxByte + 1) ]

Body(title, content) == [ NoBody EXCEPT !.title = title, !.content = content ]

\* a valid body, one createPost rejects, and a patch of the title
GoodBody   == Body(Some(Str(0, MinTitle, 0)), Some(Str(0, MinContent, 0)))
ShortBody  == Body(Some(Str(0, MinTitle - 1, 1)), Some(Str(0, MinContent, 0)))
TitlePatch == Body(Some(Str(1, MinTitle + 1, 1)), Absent)

\* the process: start-up, restart, and the steps of what is in flight
Process ==
  \/ InitGridFS
  \/ Restart
  \/ \E f \in DOMAIN uploads : UploadFinish(f)
  \/ \E f \in DOMAIN uploads : UploadError(f)

\* requests to the post routes of the service-based router, arriving in
\* the slots RQ from the users US with the given bodies and batches
PostRoutes(RQ, US, postBodies, batches, patchBodies, maxPost, maxFile) ==
  \/ \E r \in RQ, u \in US, body \in postBodies, fs \in batches :
       PostReceive(r, u, body, fs, maxPost, maxFile)
  \/ \E r \in RQ : PostCreate(r)
  \/ \E r \in RQ, u \in US, id \in {BadId} \cup (1..maxPost), body \in patchBodies :
       PatchReceive(r, u, id, body)
  \/ \E r \in RQ : PatchLoad(r)
  \/ \E r \in RQ : PatchWrite(r)
  \/ \E r \in RQ, u \in US, id \in {BadId} \cup (1..maxPost) : DeleteReceive(r, u, id)
  \/ \E r \in RQ : DeleteLoad(r)
  \/ \E r \in RQ : DeleteImage(r)
  \/ \E r \in RQ : DeleteRecord(r)

\* requests to the two public image routes
ImageRoutes(RQ, maxFile) ==
  \/ \E r \in RQ, name \in {BadId} \cup (1..maxFile) : GetByNameReceive(r, name)
  \/ \E r \in RQ : GetByNameFind(r)
  \/ \E r \in RQ, id \in {BadId} \cup (1..maxFile) : GetByIdReceive(r, id)
  \/ \E r \in RQ : GetByIdFind(r)
  \/ \E r \in RQ : StreamChunk(r)
  \/ \E r \in RQ : StreamEnd(r)
  \/ \E r \in RQ : StreamError(r)

\* Interleaved requests of one user: create with images, update, delete
Next ==
  \/ Process
  \/ PostRoutes(Reqs, {"u1"}, {GoodBody}, Batches({ImagePng}, MaxBatch), {TitlePatch},
                MaxPosts, MaxFileId)

Spec == Init /\ [][Next]_vars

\* title / content values of the bodies of the service model
PostBodies  == { Body(t, c) : t \in Opt(TitleInputs), c \in Opt(ContentInputs) }
\* a patch may carry other keys
PatchBodies == PostBodies \cup
               { [b EXCEPT !.user_id = Some(u), !.images = Some(<<>>)] :
                   b \in {NoBody, TitlePatch, GoodBody}, u \in Users }

\* One request at a time, of two users, with every body
NextService ==
  \/ Process
  \/ PostRoutes({1}, Users, PostBodies, Batches({ImagePng}, 1), PatchBodies,
                MaxServicePosts, MaxFileId)

SpecService == Init /\ [][NextService]_vars

\* --------------------------------- routes/post.js and its controllers
\* the documents of the controller's model take title, content and user_id
\* of a body; without runValidators nothing is checked on update
LegacyUpdates(body) == [ body EXCEPT !.images = Absent ]

\* PATCH /:id of the controller-based router, after requireAuth:
\* findOneAndUpdate({ _id: id }, { ...req.body }, { new: true })
LegacyPatch(r, user, id, body) ==
  /\ Free(r)
  /\ LET q == Started("LPATCH", user, id)
     IN IF id = BadId \/ id \notin DOMAIN posts
        THEN /\ Respond(r, q, StatusBadRequest, "", "none")
             /\ UNCHANGED posts
        ELSE /\ posts' = [posts EXCEPT ![id] = ApplyUpdates(posts[id], LegacyUpdates(body))]
             /\ Respond(r, q, StatusSuccess, "", "post")
  /\ UNCHANGED <<nextPostId, files, uploads, nextFileId, gridfsReady, boot, limiter>>

\* DELETE /:id of the controller-based router, after requireAuth:
\* findOneAndDelete({ _id: id })
LegacyDelete(r, user, id) ==
  /\ Free(r)
  /\ LET q == Started("LDELETE", user, id)
     IN IF id = BadId \/ id \notin DOMAIN posts
        THEN /\ Respond(r, q, StatusBadRequest, "", "none")
             /\ UNCHANGED posts
        ELSE /\ posts' = [p \in DOMAIN posts \ {id} |-> posts[p]]
             /\ Respond(r, q, StatusSuccess, "", "post")
  /\ UNCHANGED <<nextPostId, files, uploads, nextFileId, gridfsReady, boot, limiter>>

\* requests to PATCH /:id and DELETE /:id of the controller-based router
LegacyRoutes(RQ, US, patchBodies, maxPost) ==
  \/ \E r \in RQ, u \in US, id \in {BadId} \cup (1..maxPost), body \in patchBodies :
       LegacyPatch(r, u, id, body)
  \/ \E r \in RQ, u \in US, id \in {BadId} \cup (1..maxPost) : LegacyDelete(r, u, id)

\* Uploads of every mimetype, and the image routes next to the post routes
NextDownload ==
  \/ Process
  \/ PostRoutes(Reqs, {"u1"}, {GoodBody},
                BatchesOf([mimetype : MimeTypes, buffer : {<<>>, LongBuffer}], 1),
                {TitlePatch}, MaxServicePosts, MaxFileId)
  \/ ImageRoutes(Reqs, MaxFileId)

SpecDownload == Init /\ [][NextDownload]_vars

\* One POST /api/posts at a time, with up to the upload limit of files
CreateBodies == { GoodBody, ShortBody, NoBody,
                  Body(Some(Str(1, MinTitle + 1, 1)), Some(Str(1, MinContent + 1, 0))) }

NextCreate ==
  \/ Process
  \/ \E body \in CreateBodies, fs \in Batches({ImagePng, AppPdf}, UploadLimit) :
       PostReceive(1, "u1", body, fs, MaxServicePosts, UploadLimit)
  \/ PostCreate(1)

SpecCreate == Init /\ [][NextCreate]_vars

\* Both routers serving /api/posts, one request at a time, two users
NextRoutes ==
  \/ Process
  \/ PostRoutes({1}, Users, {GoodBody}, Batches({ImagePng}, 1), {TitlePatch},
                MaxPosts, MaxFileId)
  \/ LegacyRoutes({1}, Users, {TitlePatch}, MaxPosts)

SpecRoutes == Init /\ [][NextRoutes]_vars

\* Interleaved creates with a valid and with a rejected body, updates,
\* deletes and downloads
NextOrphans ==
  \/ Process
  \/ PostRoutes(Reqs, {"u1"}, {GoodBody, ShortBody},
                BatchesOf({[mimetype |-> ImagePng, buffer |-> LongBuffer]}, MaxBatch),
                {TitlePatch}, MaxServicePosts, MaxFileId)
  \/ ImageRoutes(Reqs, MaxFileId)

SpecOrphans == Init /\ [][NextOrphans]_vars

\* One client creating and deleting a Post with a file of any buffer and
\* mimetype, another one downloading
NextRoundTrip ==
  \/ Process
  \/ \E fs \in BatchesOf([mimetype : MimeTypes, buffer : Buffers(MaxBuffer)], 1) :
       PostReceive(1, "u1", GoodBody, fs, MaxServicePosts, 1)
  \/ PostCreate(1)
  \/ \E id \in 1..MaxServicePosts : DeleteReceive(1, "u1", id)
  \/ DeleteLoad(1)
  \/ DeleteImage(1)
  \/ DeleteRecord(1)
  \/ ImageRoutes({2}, 1)

SpecRoundTrip == Init /\ [][NextRoundTrip]_vars

\* the events of a download stream that is open are delivered
StreamStep(r) == StreamChunk(r) \/ StreamEnd(r) \/ StreamError(r)

SpecStreamFair == SpecRoundTrip /\ \A r \in Reqs : WF_vars(StreamStep(r))

\* Authorization headers: none, empty, other schemes, a Bearer scheme
\* without a token, and Bearer with each token, also followed by more
Header(scheme, rest) == Some(scheme \o rest)
AuthHeaders ==
  {Absent, Some(<<>>), Some(<<"B", "e", "a", "r", "e", "r">>)}
    \cup { Header(<<"b", "e", "a", "r", "e", "r", " ">>, <<"1">>),
           Header(<<"B", "a", "s", "i", "c", " ">>, <<"1">>),
           Header(Bearer, <<>>), Header(Bearer, <<" ", "1">>),
           Header(Bearer, <<"1", " ", "z">>) }
    \cup { Header(Bearer, <<t>>) : t \in {"1", "2", "0", "x"} }

\* One request at a time through authenticate to the post routes
NextAuth ==
  \/ Process
  \/ \E h \in AuthHeaders, fs \in Batches({ImagePng}, 1) :
       AuthReceive(1, "POST", h, 0, GoodBody, fs, MaxServicePosts, MaxFileId)
  \/ \E h \in AuthHeaders, id \in {BadId} \cup (1..MaxServicePosts) :
       AuthReceive(1, "PATCH", h, id, TitlePatch, <<>>, MaxServicePosts, MaxFileId)
  \/ \E h \in AuthHeaders, id \in {BadId} \cup (1..MaxServicePosts) :
       AuthReceive(1, "DELETE", h, id, NoBody, <<>>, MaxServicePosts, MaxFileId)
  \/ AuthLoad(1, MaxServicePosts, MaxFileId)
  \/ PostCreate(1)
  \/ PatchLoad(1)
  \/ PatchWrite(1)
  \/ DeleteLoad(1)
  \/ DeleteImage(1)
  \/ DeleteRecord(1)

SpecAuth == Init /\ [][NextAuth]_vars

\* query parameters: none, zero, in range, out of range, not a number, a
\* number preceded or followed by something else
PageInputs  == Opt({ <<"0">>, <<"1">>, <<" ", "2">>, <<"3", "x">>, <<"-", "1">> })
LimitInputs == Opt({ <<"x">>, <<"1">>, <<"2">>, <<"1", "0", "0">>, <<"1", "0", "1">>,
                     <<"-", "1">> })

\* One request at a time: Posts of two users are created and deleted by
\* their owners, and u1 lists
NextList ==
  \/ \E u \in Users : PostReceive(1, u, GoodBody, <<>>, MaxListPosts, MaxFileId)
  \/ PostCreate(1)
  \/ \E id \in DOMAIN posts : DeleteReceive(1, posts[id].user_id, id)
  \/ DeleteLoad(1)
  \/ DeleteRecord(1)
  \/ \E op \in {"LISTALL", "LISTMINE"}, p \in PageInputs, l \in LimitInputs :
       ListReceive(1, op, "u1", [page |-> p, limit |-> l])
  \/ ListFind(1)
  \/ ListCount(1)

SpecList == Init /\ [][NextList]_vars

\* Limiters created with each maxRequests, two client addresses, the clock
InitRate ==
  /\ InitStore /\ boot = BootOff
  /\ \E maxes \in [Limiters -> 0..MaxRequests] : limiter = CreateRateLimiter(maxes)

NextRate ==
  \/ Tick
  \/ \E l \in Limiters, ip \in IPs : RateLimit(l, ip)

SpecRate == InitRate /\ [][NextRate]_vars

\* ======================================================================
\* Properties
\* ======================================================================
\* the file ids of a sequence of image refs
RefIds(images) == { images[k].fileId : k \in 1..Len(images) }
SeqIds(ids)    == { ids[k] : k \in 1..Len(ids) }

\* slot r takes a step
Steps(r) == req'[r] # req[r]

\* an ended request of slot r
Ended(r) == req[r].pc = "done"

\* C3: in deletePost by the owner, once the bucket was obtained, every image
\* ref of the Post got its own gridfsBucket.delete call, also when the delete
\* of another image of the Post failed.
C3_EveryImageAttempted ==
  \A r \in Reqs :
    (Ended(r) /\ req[r].op = "DELETE" /\ req[r].result = "deleted" /\ req[r].attempted # <<>>)
      => RefIds(req[r].images) \subseteq SeqIds(req[r].attempted)

\* C4: deletePost by the owner removes the Post record only from the step
\* after its loop over the images (all of them deleted, or the catch block
\* entered), never answers with the error of getGridFS or of a bucket
\* delete, and ends with the record gone and the success answer.
C4_RecordRemovedAfterImages ==
  [][ \A r \in Reqs :
        (req[r].op = "DELETE" /\ Steps(r)) =>
          /\ (req[r].pc = "delLoad" /\ DeleteError(req[r].id, req[r].user) = "")
               => req'[r].pc \in {"delImages", "delRecord"}
          /\ req[r].pc = "delImages"
               => /\ req'[r].pc \in {"delImages", "delRecord"}
                  /\ posts' = posts
          /\ (req[r].id \in DOMAIN posts /\ req[r].id \notin DOMAIN posts')
               => /\ req[r].pc = "delRecord"
                  /\ req[r].caught \/ RefIds(posts[req[r].id].images) = SeqIds(req[r].attempted)
          /\ req[r].pc = "delRecord"
               => /\ req[r].id \notin DOMAIN posts'
                  /\ req'[r] = Answer(req[r], StatusSuccess, "", "deleted") ]_vars

\* C4 witness: a delete answered with success after a bucket delete failed
C4_Witness ==
  \E r \in Reqs :
    /\ Ended(r) /\ req[r].op = "DELETE" /\ req[r].result = "deleted"
    /\ req[r].status = StatusSuccess
    /\ req[r].caught /\ req[r].attempted # <<>>
    /\ req[r].id \notin DOMAIN posts

\* the C4 case of a store that is not initialized: no bucket delete was made
C4_WitnessNoStore ==
  \E r \in Reqs :
    /\ Ended(r) /\ req[r].op = "DELETE" /\ req[r].result = "deleted" /\ req[r].caught
    /\ req[r].attempted = <<>> /\ req[r].images # <<>>

\* C5: after a successful deletePost in which no bucket delete failed, the
\* Post and every object its image refs name are gone; and a delete request
\* removes nothing but its Post and the objects that Post names.
C5_DeleteInv ==
  \A r \in Reqs :
    (Ended(r) /\ req[r].op = "DELETE" /\ req[r].result = "deleted" /\ ~req[r].caught) =>
       /\ req[r].id \notin DOMAIN posts
       /\ RefIds(req[r].images) \cap DOMAIN files = {}

C5_DeleteFrame ==
  \A r \in Reqs :
    (req[r].op = "DELETE" /\ ~Ended(r) /\ Steps(r)) =>
      /\ DOMAIN posts' \subseteq DOMAIN posts
      /\ \A p \in DOMAIN posts \ {req[r].id} : p \in DOMAIN posts' /\ posts'[p] = posts[p]
      /\ DOMAIN files' \subseteq DOMAIN files
      /\ \A f \in DOMAIN files \ RefIds(req[r].images) :
           f \in DOMAIN files' /\ files'[f] = files[f]

C5_DeleteRemovesPostAndImages == []C5_DeleteInv /\ [][C5_DeleteFrame]_vars

\* C5 witness: a Post with an image was deleted without a failure while
\* another Post and its object are still there
C5_Witness ==
  \E r \in Reqs :
    /\ Ended(r) /\ req[r].op = "DELETE" /\ req[r].result = "deleted" /\ ~req[r].caught
    /\ req[r].images # <<>>
    /\ DOMAIN posts # {} /\ DOMAIN files # {}

\* C1: updatePost and deletePost by a user who is not the owner of an
\* existing Post end with AuthorizationError whatever the patch holds, and
\* no step of the call changes a Post, an image ref or a stored object.
C1_NonOwnerRejected ==
  [][ \A r \in Reqs :
        /\ (Steps(r) /\ req[r].pc \in {"updLoad", "delLoad"}
              /\ req[r].id \in DOMAIN posts /\ posts[req[r].id].user_id # req[r].user)
             => /\ req'[r] = Answer(req[r], 0, "AuthorizationError", "none")
                /\ posts' = posts /\ files' = files /\ uploads' = uploads
        /\ (Steps(r) /\ Free(r) /\ req'[r].op \in {"PATCH", "DELETE"})
             => posts' = posts /\ files' = files /\ uploads' = uploads ]_vars

\* C1 witness: a non-owner was refused while the Post, with an image in the
\* bucket, is still there
C1_Witness ==
  \E r \in Reqs :
    /\ Ended(r) /\ req[r].op \in {"PATCH", "DELETE"} /\ req[r].err = "AuthorizationError"
    /\ req[r].id \in DOMAIN posts
    /\ posts[req[r].id].images # <<>>
    /\ RefIds(posts[req[r].id].images) \subseteq DOMAIN files

\* C9: every persisted Post has a trimmed title of at least 3 characters and
\* a trimmed content of at least 10; a createPost or updatePost whose title
\* or content would break this persists nothing and, once the Post is found
\* and owned by the caller, ends with a validation error.
ValidPost(post) ==
  /\ Trim(post.title) = post.title /\ Len(post.title) >= MinTitle
  /\ Trim(post.content) = post.content /\ Len(post.content) >= MinContent

TooShort(o, min)  == o # Absent /\ Len(Trim(Get(o))) < min
CreateBreaks(b)   == b.title = Absent \/ b.content = Absent
                       \/ TooShort(b.title, MinTitle) \/ TooShort(b.content, MinContent)
PatchBreaks(b)    == TooShort(b.title, MinTitle) \/ TooShort(b.content, MinContent)

C9_PostsValid == \A p \in DOMAIN posts : ValidPost(posts[p])

C9_Rejected ==
  \A r \in Reqs :
    /\ (Steps(r) /\ req[r].pc = "uploading" /\ CreateBreaks(req[r].body))
         => /\ posts' = posts
            /\ (BatchIds(req[r]) \cap DOMAIN uploads = {})
                 => Ended(r)' /\ req'[r].err = "ValidationError"
    /\ (Steps(r) /\ req[r].pc \in {"updLoad", "updWrite"} /\ PatchBreaks(req[r].body))
         => /\ posts' = posts
            /\ (req[r].pc = "updLoad" /\ req[r].id \in DOMAIN posts
                  /\ posts[req[r].id].user_id = req[r].user)
                 => \/ req'[r].pc = "updWrite"
                    \/ Ended(r)' /\ req'[r].err = "ValidationError"
            /\ req[r].pc = "updWrite"
                 => Ended(r)' /\ req'[r].err = "MongooseValidationError"

C9_TitleContentInvariant == []C9_PostsValid /\ [][C9_Rejected]_vars

\* C9 witness: a patch with an empty title was refused by the schema's
\* validators while the Post keeps its valid title
C9_Witness ==
  \E r \in Reqs :
    /\ Ended(r) /\ req[r].op = "PATCH" /\ req[r].err = "MongooseValidationError"
    /\ req[r].id \in DOMAIN posts /\ ValidPost(posts[req[r].id])

\* C10: no step changes the owner id or the image refs of a Post, and
\* updatePost changes nothing but the title and content present in the
\* patch, which become the trimmed values of the patch.
C10_Frame ==
  /\ \A p \in DOMAIN posts \cap DOMAIN posts' :
       posts'[p].user_id = posts[p].user_id /\ posts'[p].images = posts[p].images
  /\ \A r \in Reqs :
       (Steps(r) /\ req[r].pc \in {"updLoad", "updWrite"}) =>
          /\ DOMAIN posts' = DOMAIN posts
          /\ \A p \in DOMAIN posts \ {req[r].id} : posts'[p] = posts[p]
          /\ req[r].id \in DOMAIN posts =>
               LET old == posts[req[r].id]
                   new == posts'[req[r].id]
                   b   == req[r].body
               IN /\ b.title = Absent => new.title = old.title
                  /\ b.content = Absent => new.content = old.content
                  /\ new.title \in {old.title} \cup { Trim(t) : t \in b.title }
                  /\ new.content \in {old.content} \cup { Trim(c) : c \in b.content }
                  /\ (req[r].pc = "updWrite" /\ req'[r].result = "post") =>
                       /\ b.title # Absent => new.title = Trim(Get(b.title))
                       /\ b.content # Absent => new.content = Trim(Get(b.content))

C10_OnlyTitleAndContent == [][C10_Frame]_vars

\* C10 witness: the owner's patch was applied to a Post that has an image,
\* and the Post still has that image
PatchedTitle == Trim(Str(1, MinTitle + 1, 1))

C10_Witness ==
  \E r \in Reqs :
    /\ Ended(r) /\ req[r].op = "PATCH" /\ req[r].result = "post"
    /\ req[r].id \in DOMAIN posts
    /\ posts[req[r].id].title = PatchedTitle
    /\ posts[req[r].id].images # <<>>

\* the user whose request takes the step of slot r
Actor(r) == IF Free(r) THEN req'[r].user ELSE req[r].user

\* C2: a Post is modified or removed only by a step of a request whose
\* authenticated user is the owner of the Post.
C2_OnlyOwnerMutates ==
  [][ \A p \in DOMAIN posts :
        (p \notin DOMAIN posts' \/ posts'[p] # posts[p])
          => \E r \in Reqs : Steps(r) /\ Actor(r) = posts[p].user_id ]_vars

\* What the download endpoints are to serve: an object whose content type,
\* the one of its metadata, else the one of the file document, else
\* image/jpeg, starts with "image/".
HasText(o) == o # Absent /\ Len(Get(o)) > 0
ImageObject(file) ==
  LET ct == IF HasText(file.metadata.contentType) THEN Get(file.metadata.contentType)
            ELSE IF HasText(file.contentType) THEN Get(file.contentType)
            ELSE <<"i", "m", "a", "g", "e", "/", "j", "p", "e", "g">>
  IN Len(ct) >= 6 /\ SubSeq(ct, 1, 6) = <<"i", "m", "a", "g", "e", "/">>

\* C6: the by-name endpoint answers 404 without opening a download stream
\* when find matches no object or an object that is not an image, and the
\* stream it has opened is that of an image.
C6_FindStep ==
  \A r \in Reqs :
    (Steps(r) /\ req[r].pc = "find" /\ req[r].op = "GETNAME"
       /\ \A f \in FindByName(req[r].id) : ~ImageObject(files[f]))
      => req'[r] = Answer(req[r], StatusNotFound, "", "none") /\ req'[r].opened = Absent

C6_Opened ==
  \A r \in Reqs :
    (req[r].op = "GETNAME" /\ req[r].opened # Absent /\ Get(req[r].opened) \in DOMAIN files)
      => ImageObject(files[Get(req[r].opened)])

C6_ByNameImagesOnly == []C6_Opened /\ [][C6_FindStep]_vars

\* C6 witness: the name of a stored object that is not an image was
\* answered 404, no stream opened
C6_Witness ==
  \E r \in Reqs :
    /\ Ended(r) /\ req[r].op = "GETNAME" /\ req[r].status = StatusNotFound
    /\ req[r].opened = Absent
    /\ \E f \in FindByName(req[r].id) : ~ImageObject(files[f])

\* C7: the by-id endpoint opens a download stream only for an image.
C7_ByIdImagesOnly ==
  \A r \in Reqs :
    (req[r].op = "GETID" /\ req[r].opened # Absent /\ Get(req[r].opened) \in DOMAIN files)
      => ImageObject(files[Get(req[r].opened)])

\* C8: createPost with a valid title and content, after the uploads of its
\* batch, creates the Post with one image ref per upload result, in order,
\* each with the id, name, content type and size of the stored object.
RefMatches(ref, result, file) ==
  /\ ref.fileId = result.id
  /\ ref.filename = file.filename
  /\ Some(ref.contentType) = file.metadata.contentType
  /\ ref.size = file.length

C8_CreateStep ==
  \A r \in Reqs :
    (Steps(r) /\ req[r].pc = "uploading" /\ ~CreateBreaks(req[r].body)
       /\ BatchIds(req[r]) \cap DOMAIN uploads = {})
      => /\ Ended(r)' /\ req'[r].status = StatusCreated /\ req'[r].err = ""
         /\ req'[r].id \in DOMAIN posts' \ DOMAIN posts
         /\ LET post == posts'[req'[r].id]
                b == req[r].batch
            IN /\ post.title = Trim(Get(req[r].body.title))
               /\ post.content = Trim(Get(req[r].body.content))
               /\ post.user_id = req[r].user
               /\ Len(post.images) = Len(b)
               /\ \A k \in 1..Len(b) :
                    /\ b[k].id \in DOMAIN files
                    /\ RefMatches(post.images[k], b[k], files[b[k].id])

C8_CreateKeepsUploads == [][C8_CreateStep]_vars

\* C8 witness: a Post was created with as many image refs as the upload
\* limit allows
C8_Witness ==
  \E r \in Reqs :
    /\ Ended(r) /\ req[r].op = "POST" /\ req[r].status = StatusCreated
    /\ req[r].id \in DOMAIN posts
    /\ Len(posts[req[r].id].images) = UploadLimit

\* the C8 case of no file: the Post is created with no image ref
C8_WitnessNoFile ==
  \E r \in Reqs :
    /\ Ended(r) /\ req[r].op = "POST" /\ req[r].status = StatusCreated
    /\ req[r].id \in DOMAIN posts
    /\ posts[req[r].id].images = <<>>

\* C11: a POST still waiting for its batch ends with an error, creating no
\* Post and leaving the stored objects and the other open streams as they
\* are, as soon as one upload of the batch fails; a Post is only created by
\* a request whose whole batch is stored, with one image ref per upload
\* result in the order of the batch.
FailedUploads == { f \in DOMAIN uploads : f \notin DOMAIN uploads' /\ f \notin DOMAIN files' }

C11_BatchStep ==
  \A r \in Reqs :
    (req[r].pc = "uploading" /\ FailedUploads \cap BatchIds(req[r]) # {})
      => /\ Ended(r)' /\ req'[r].err = "Error" /\ req'[r].status # StatusCreated
         /\ posts' = posts /\ files' = files
         /\ DOMAIN uploads' = DOMAIN uploads \ FailedUploads

C11_PostNeedsAll ==
  \A p \in DOMAIN posts' \ DOMAIN posts :
    \E r \in Reqs :
      /\ req[r].pc = "uploading" /\ Ended(r)' /\ req'[r].id = p
      /\ BatchIds(req[r]) \subseteq DOMAIN files
      /\ Len(posts'[p].images) = Len(req[r].batch)
      /\ \A k \in 1..Len(req[r].batch) : posts'[p].images[k].fileId = req[r].batch[k].id

C11_AllOrNothing == [][C11_BatchStep /\ C11_PostNeedsAll]_vars

\* C11 witness: a POST failed on one upload of its batch while another
\* object of the batch is stored, referenced by no Post
C11_Witness ==
  \E r \in Reqs :
    /\ Ended(r) /\ req[r].op = "POST" /\ req[r].err = "Error"
    /\ Len(req[r].batch) >= 2
    /\ \E f \in BatchIds(req[r]) :
         /\ f \in DOMAIN files
         /\ \A p \in DOMAIN posts : f \notin RefIds(posts[p].images)

\* C12: an object stored by a POST that failed is referenced by no Post, and
\* no step of any request removes or changes it afterwards.
\* A stored object is unreferenced when no Post references it and no delete
\* in flight has read it; it is an orphan when, moreover, no POST still
\* waiting for its batch holds it.
Unreferenced(f) ==
  /\ f \in DOMAIN files
  /\ \A p \in DOMAIN posts : f \notin RefIds(posts[p].images)
  /\ \A r \in Reqs : ~Ended(r) => f \notin RefIds(req[r].images)

Orphan(f) ==
  /\ Unreferenced(f)
  /\ \A r \in Reqs : ~Ended(r) => f \notin BatchIds(req[r])

FailedPost(r) == Ended(r) /\ req[r].op = "POST" /\ req[r].status # StatusCreated

C12_FailedPostOrphans ==
  \A r \in Reqs : FailedPost(r) => \A f \in BatchIds(req[r]) \cap DOMAIN files : Orphan(f)

C12_OrphanStays ==
  \A f \in DOMAIN files :
    /\ Unreferenced(f) => f \in DOMAIN files' /\ files'[f] = files[f]
    /\ Orphan(f) => Orphan(f)'

C12_OrphansNeverDeleted == []C12_FailedPostOrphans /\ [][C12_OrphanStays]_vars

\* C12 witness: the object a POST stored before createPost rejected its
\* title is still there after a Post was created and deleted
C12_Witness ==
  \E r \in Reqs :
    /\ Ended(r) /\ req[r].op = "DELETE" /\ req[r].status = StatusSuccess
    /\ posts = <<>>
    /\ \E f \in DOMAIN files : Orphan(f)

\* the two ways of C12: the batch failed, createPost rejected the body
C12_WitnessBatch ==
  \E r \in Reqs : FailedPost(r) /\ req[r].err = "Error"
                    /\ BatchIds(req[r]) \cap DOMAIN files # {}

C12_WitnessRejected ==
  \E r \in Reqs : FailedPost(r) /\ req[r].err = "ValidationError"
                    /\ BatchIds(req[r]) \cap DOMAIN files # {}

\* C13 as stated: whatever the content type given at upload, the download
\* by the storage name of a stored object streams it.
C13_AnyTypeRoundTrip ==
  [][ \A r \in Reqs :
        (Steps(r) /\ req[r].pc = "find" /\ req[r].op = "GETNAME"
           /\ FindByName(req[r].id) # {})
          => req'[r].pc = "stream" ]_vars

\* C13, for the content types that start with "image/": the download by
\* the storage name the upload returned streams the object, and a download
\* that ended with success sent exactly the bytes of the uploaded buffer, in
\* order, with the content type given at upload.
C13_FindStreamsImage ==
  \A r \in Reqs :
    (Steps(r) /\ req[r].pc = "find" /\ req[r].op = "GETNAME"
       /\ \E f \in FindByName(req[r].id) : ImageObject(files[f]))
      => req'[r].pc = "stream" /\ req'[r].sent = <<>>

\* the file of the POST in slot p that the ended download of slot g named
Downloaded(p, g, k) ==
  /\ req[p].op = "POST" /\ req[p].pc = "uploading"
  /\ k \in 1..Len(req[p].batch)
  /\ Ended(g) /\ req[g].op = "GETNAME" /\ req[g].result = "stream"
  /\ req[g].id = req[p].batch[k].filename

C13_SameBytes ==
  \A p, g \in Reqs : \A k \in 1..UploadLimit :
    Downloaded(p, g, k)
      => /\ req[g].status = StatusSuccess
         /\ req[g].sent = req[p].upfiles[k].buffer
         /\ req[g].ctype = Some(req[p].upfiles[k].mimetype)

C13_ImageRoundTrip == []C13_SameBytes /\ [][C13_FindStreamsImage]_vars

\* C13 witness: a buffer of several chunks came back from the download
C13_Witness ==
  \E p, g \in Reqs :
    /\ Downloaded(p, g, 1)
    /\ Len(req[p].upfiles[1].buffer) = MaxBuffer
    /\ req[g].sent = req[p].upfiles[1].buffer

\* the C13 case of the empty buffer
C13_WitnessEmpty ==
  \E p, g \in Reqs :
    Downloaded(p, g, 1) /\ req[p].upfiles[1].buffer = <<>> /\ req[g].sent = <<>>

\* the attempts of the guard that are in flight, and those that succeeded
PendingAttempts  == { k \in 1..MaxAttempts : boot.attempt[k] = "pending" }
ResolvedAttempts == { k \in 1..MaxAttempts : boot.attempt[k] = "resolved" }

\* C14: the guard has at most one initialization attempt in flight; a
\* request arriving while an attempt is pending awaits that attempt and
\* starts none; once an attempt has succeeded, no attempt is started and
\* initGridFS does not run again.
C14_OneInFlight == Cardinality(PendingAttempts) <= 1

C14_GuardStep ==
  /\ \A r \in Reqs :
       (PendingAttempts # {} /\ FreeGuard(boot, r) /\ ~FreeGuard(boot', r))
         => /\ boot'.guard[r].pc = "await"
            /\ boot'.guard[r].on \in PendingAttempts
            /\ boot'.attempt = boot.attempt
  /\ ResolvedAttempts # {}
       => boot'.attempt = boot.attempt /\ boot'.handle = boot.handle

C14_SingleAttempt == []C14_OneInFlight /\ [][C14_GuardStep]_vars

\* C14 witness: two requests await the same pending attempt
C14_Witness ==
  /\ \A r \in Reqs : r <= 2 => boot.guard[r].pc = "await"
  /\ boot.guard[1].on = boot.guard[2].on
  /\ boot.guard[1].on \in PendingAttempts

\* the C14 case after a success: a request passed the guard at once
C14_WitnessPassed ==
  \E r \in Reqs : boot.guard[r].pc = "passed" /\ ResolvedAttempts # {}

\* C15: gfs / gridfsBucket are assigned at most once in a process, start-up
\* path and per-request path counted together.
C15_HandleAssignedOnce == boot.handle <= 1

\* C20: with the middleware installed, a route handler runs for a request
\* only when the connection and initGridFS have completed, so its getGridFS
\* does not throw; a request whose guard failed is answered 503.
C20_HandlerAfterInit ==
  \A r \in Reqs :
    MiddlewareInstalled(boot) =>
      /\ boot.guard[r].pc = "handler"
           => gridfsReady /\ boot.handle >= 1 /\ boot.connected
      /\ boot.guard[r].pc = "done"
           => boot.guard[r].status \in {StatusSuccess, StatusUnavailable}

\* C20 witness: a handler runs for a request that awaited the attempt
C20_Witness ==
  \E r \in Reqs :
    /\ MiddlewareInstalled(boot)
    /\ boot.guard[r].pc = "handler" /\ boot.guard[r].on # 0

\* the C20 case of a failed initialization: 503, no handler
C20_WitnessUnavailable ==
  \E r \in Reqs : boot.guard[r].pc = "done" /\ boot.guard[r].status = StatusUnavailable

\* C16: a download whose read stream fails (the object is gone under the
\* open stream) eventually ends.
StreamFails(r) == req[r].pc = "stream" /\ Get(req[r].opened) \notin DOMAIN files

C16_StreamErrorEnds == \A r \in Reqs : StreamFails(r) ~> Ended(r)

\* the part of C16 before any byte was sent: the request ends with 500
C16_EarlyErrorAnswered ==
  \A r \in Reqs :
    (StreamFails(r) /\ req[r].n = 0) ~> (Ended(r) /\ req[r].status = StatusServerError)

\* C17: the handler of POST, PATCH or DELETE runs for a request only when
\* its Authorization header is "Bearer " and a token that verifies, issued
\* to a user that exists, and then with that user's id; every other request
\* ends with AuthenticationError, and authenticate changes nothing.
VerifiedTokens == { <<"1">>, <<"2">> }
GoodHeaders ==
  { Bearer \o t \o more : t \in VerifiedTokens, more \in {<<>>, <<" ", "z">>} }
TokenOwner(h) == IF h[Len(Bearer) + 1] = "1" THEN "u1" ELSE "u2"

Guarded(q) == q.op \in {"POST", "PATCH", "DELETE"}

HandlerRan(q) ==
  /\ Guarded(q)
  /\ \/ q.pc \notin {"idle", "auth", "done"}
     \/ q.pc = "done" /\ q.err # "AuthenticationError"

GoodAuth(q) == q.header # Absent /\ Get(q.header) \in GoodHeaders

C17_Authenticated ==
  \A r \in Reqs :
    /\ HandlerRan(req[r])
         => GoodAuth(req[r]) /\ req[r].user = TokenOwner(Get(req[r].header))
    /\ (Guarded(req[r]) /\ Ended(r) /\ ~GoodAuth(req[r]))
         => req[r].err = "AuthenticationError"
    /\ req[r].pc = "auth" => req[r].user = "none"

C17_AuthFrame ==
  \A r \in Reqs :
    (Steps(r) /\ (req'[r].pc = "auth" \/ req'[r].err = "AuthenticationError"))
      => /\ posts' = posts /\ files' = files /\ uploads' = uploads
         /\ nextPostId' = nextPostId /\ nextFileId' = nextFileId

C17_HandlerAfterAuth == []C17_Authenticated /\ [][C17_AuthFrame]_vars

\* C17 witness: the owner's DELETE went through authenticate and removed
\* the Post
C17_Witness ==
  \E r \in Reqs :
    /\ Ended(r) /\ req[r].op = "DELETE" /\ req[r].status = StatusSuccess
    /\ GoodAuth(req[r]) /\ req[r].user = "u1"

\* the C17 cases of a rejected request: a token of a user that is gone, a
\* header without a token
C17_WitnessNoUser ==
  \E r \in Reqs :
    /\ Ended(r) /\ req[r].err = "AuthenticationError"
    /\ req[r].header = Header(Bearer, <<"0">>)

C17_WitnessNoToken ==
  \E r \in Reqs :
    /\ Ended(r) /\ req[r].err = "AuthenticationError"
    /\ req[r].header = Header(Bearer, <<>>)

\* C19: a PATCH that ends without error returns the updated Post, never an
\* empty result, whatever other requests do between its ownership check
\* and its write.
C19_UpdateReturnsPost ==
  \A r \in Reqs :
    (Ended(r) /\ req[r].op = "PATCH" /\ req[r].err = "")
      => req[r].result = "post"

\* C18: the page and limit that reach the service are page >= 1 and
\* 1 <= limit <= 100; find answers with the Posts of the filter ranked
\* (page-1)*limit+1 .. page*limit by creation time, newest first;
\* countDocuments answers with the number of Posts of the filter; and the
\* result carries that page, that total and pages = ceil(total/limit).
Listing(q) == q.op \in {"LISTALL", "LISTMINE"}

Rank(id, S) == Cardinality({ y \in S : CreatedAt(y) > CreatedAt(id) }) + 1

IsPage(s, S, page, limit) ==
  /\ \A k \in 1..Len(s) : s[k] \in S /\ Rank(s[k], S) = (page - 1) * limit + k
  /\ \A id \in S :
       Rank(id, S) \in ((page - 1) * limit + 1)..(page * limit)
         => \E k \in 1..Len(s) : s[k] = id

IsCeil(n, total, limit) == n * limit >= total /\ (n > 0 => (n - 1) * limit < total)

C18_InRange ==
  \A r \in Reqs :
    (Listing(req[r]) /\ (req[r].pc = "listing" \/ req[r].err = ""))
      => /\ req[r].pagination.page >= 1
         /\ req[r].pagination.limit \in 1..100

C18_Result ==
  \A r \in Reqs :
    (Listing(req[r]) /\ Ended(r) /\ req[r].err = "")
      => /\ req[r].status = StatusSuccess
         /\ req[r].found # Absent /\ req[r].count # Absent
         /\ req[r].pagination.total = Get(req[r].count)
         /\ IsCeil(req[r].pagination.pages, req[r].pagination.total,
                   req[r].pagination.limit)

C18_FindStep ==
  \A r \in Reqs :
    (Listing(req[r]) /\ req[r].found = Absent /\ req'[r].found # Absent)
      => IsPage(Get(req'[r].found), Matching(req[r].op, req[r].user),
                req[r].pagination.page, req[r].pagination.limit)

C18_CountStep ==
  \A r \in Reqs :
    (Listing(req[r]) /\ req[r].count = Absent /\ req'[r].count # Absent)
      => Get(req'[r].count) = Cardinality(Matching(req[r].op, req[r].user))

C18_Pagination ==
  /\ [](C18_InRange /\ C18_Result)
  /\ [][C18_FindStep /\ C18_CountStep]_vars

\* C18 witness: the second page of a user's Posts, one per page, of three
\* Posts of which that user has two
C18_Witness ==
  \E r \in Reqs :
    /\ Ended(r) /\ req[r].op = "LISTMINE" /\ req[r].err = ""
    /\ req[r].pagination = [page |-> 2, limit |-> 1, total |-> 2, pages |-> 2]
    /\ Len(Get(req[r].found)) = 1
    /\ Cardinality(DOMAIN posts) = 3

\* the C18 cases of the defaults and of a page past the end
C18_WitnessDefaults ==
  \E r \in Reqs :
    /\ Ended(r) /\ req[r].op = "LISTALL" /\ req[r].err = ""
    /\ req[r].query = [page |-> Some(<<"0">>), limit |-> Some(<<"x">>)]
    /\ req[r].pagination.page = 1 /\ req[r].pagination.limit = 10
    /\ Len(Get(req[r].found)) = 2

C18_WitnessPastEnd ==
  \E r \in Reqs :
    /\ Ended(r) /\ req[r].op = "LISTALL" /\ req[r].err = ""
    /\ req[r].pagination.page = 3 /\ req[r].pagination.limit = 2
    /\ req[r].pagination.total = 3 /\ req[r].pagination.pages = 2
    /\ Get(req[r].found) = <<>>

C18_WitnessRejected ==
  \E r \in Reqs :
    /\ Ended(r) /\ Listing(req[r]) /\ req[r].err = "ValidationError"
    /\ req[r].query.limit = Some(<<"1", "0", "1">>)

\* C21: when an attempt of the guard fails, the promise variable is cleared
\* and the flag stays false; every request that awaited the attempt is
\* answered 503 and no handler runs for it; the next request starts a new
\* attempt; and a request whose attempt succeeds, or that arrives after a
\* success, is eventually served.
RejectedAttempts == { k \in 1..MaxAttempts : boot.attempt[k] = "rejected" }

AwaitsRejected(r) ==
  boot.guard[r].pc = "await" /\ boot.guard[r].on \in RejectedAttempts

Served(r) == boot.guard[r].pc = "done" /\ boot.guard[r].status = StatusSuccess

C21_FailStep ==
  \A k \in 1..MaxAttempts :
    (boot.attempt[k] = "pending" /\ boot'.attempt[k] = "rejected")
      => /\ boot'.promise = 0
         /\ ~boot.connected /\ ~boot'.connected
         /\ boot'.handle = boot.handle

C21_AnswerStep ==
  \A r \in Reqs :
    (AwaitsRejected(r) /\ boot'.guard[r] # boot.guard[r])
      => /\ boot'.guard[r].pc = "done"
         /\ boot'.guard[r].status = StatusUnavailable

C21_RetryStep ==
  \A r \in Reqs :
    (/\ MiddlewareInstalled(boot) /\ RejectedAttempts # {}
     /\ PendingAttempts = {} /\ ResolvedAttempts = {}
     /\ FreeGuard(boot, r) /\ ~FreeGuard(boot', r))
      => /\ boot'.guard[r].pc = "await"
         /\ boot.attempt[boot'.guard[r].on] = "unused"
         /\ boot'.attempt[boot'.guard[r].on] = "pending"

C21_Cleared ==
  (RejectedAttempts # {} /\ PendingAttempts = {} /\ ResolvedAttempts = {})
    => boot.promise = 0 /\ ~boot.connected

C21_Served ==
  \A r \in Reqs :
    /\ (boot.guard[r].pc = "await" /\ boot.guard[r].on \in ResolvedAttempts) ~> Served(r)
    /\ (boot.guard[r].pc = "passed") ~> Served(r)
    /\ AwaitsRejected(r) ~> (boot.guard[r].pc = "done"
                               /\ boot.guard[r].status = StatusUnavailable)

C21_FailedAttemptRetried ==
  /\ []C21_Cleared
  /\ [][C21_FailStep /\ C21_AnswerStep /\ C21_RetryStep]_vars
  /\ C21_Served

\* C21 witness: the first attempt failed, a later request started the
\* second one, which succeeded, and the request was served
C21_Witness ==
  \E r \in Reqs :
    /\ Served(r) /\ boot.guard[r].on = 2
    /\ boot.attempt[1] = "rejected" /\ boot.attempt[2] = "resolved"

\* the C21 case of the requests of the failed attempt: two were answered 503
C21_WitnessBothUnavailable ==
  /\ \A r \in Reqs : r <= 2 =>
        /\ boot.guard[r].pc = "done" /\ boot.guard[r].status = StatusUnavailable
        /\ boot.guard[r].on = 1
  /\ boot.attempt[1] = "rejected"

\* C22: for each limiter, each client IP and each instant t, at most
\* maxRequests of the IP's requests passed on to next() carry a timestamp
\* in (t - WINDOW_MS, t]; a request answered 429 is not recorded in the
\* IP's log; and a request of one IP changes neither the log nor the
\* outcome of another IP or of another limiter.
Instants == (0 - WindowMs)..(MaxClock + WindowMs)

PassedIn(l, ip, t) ==
  Cardinality({ k \in 1..Len(limiter.passed[l][ip]) :
                  /\ limiter.passed[l][ip][k] > t - WindowMs
                  /\ limiter.passed[l][ip][k] <= t })

C22_WindowBound ==
  \A l \in Limiters, ip \in IPs, t \in Instants :
    PassedIn(l, ip, t) <= limiter.max[l]

\* the log of an IP holds passed requests only: it is a suffix of them
C22_LogIsPassed ==
  \A l \in Limiters : \A ip \in DOMAIN limiter.requests[l] :
    LET log == limiter.requests[l][ip]
        all == limiter.passed[l][ip]
    IN /\ Len(log) <= Len(all)
       /\ log = SubSeq(all, Len(all) - Len(log) + 1, Len(all))

RequestStep(l, ip) ==
  /\ limiter'.last.flip # limiter.last.flip
  /\ limiter'.last.limiter = l /\ limiter'.last.ip = ip

C22_RejectStep ==
  \A l \in Limiters, ip \in IPs :
    (RequestStep(l, ip) /\ limiter'.last.status = StatusTooMany)
      => /\ limiter'.passed = limiter.passed
         /\ Len(limiter'.requests[l][ip]) <= Len(RequestLog(limiter.requests[l], ip))
         /\ PassedIn(l, ip, limiter.now) >= limiter.max[l]

C22_IsolationStep ==
  \A l \in Limiters, ip \in IPs :
    RequestStep(l, ip)
      => /\ (limiter'.last.status = StatusTooMany)
              <=> (PassedIn(l, ip, limiter.now) >= limiter.max[l])
         /\ \A l2 \in Limiters, ip2 \in IPs :
              <<l2, ip2>> # <<l, ip>>
                => /\ limiter'.passed[l2][ip2] = limiter.passed[l2][ip2]
                   /\ RequestLog(limiter'.requests[l2], ip2)
                        = RequestLog(limiter.requests[l2], ip2)
                   /\ (ip2 \in DOMAIN limiter'.requests[l2])
                        <=> (ip2 \in DOMAIN limiter.requests[l2])

C22_SlidingWindow ==
  /\ [](C22_WindowBound /\ C22_LogIsPassed)
  /\ [][C22_RejectStep /\ C22_IsolationStep]_vars

\* C22 witness: an IP at its limit is answered 429 while the other IP, and
\* the same IP at the other limiter, have passed nothing
C22_Witness ==
  \E l \in Limiters, ip \in IPs :
    /\ limiter.last = [ limiter |-> l, ip |-> ip, status |-> StatusTooMany,
                        flip |-> limiter.last.flip ]
    /\ limiter.max[l] = MaxRequests
    /\ PassedIn(l, ip, limiter.now) = MaxRequests
    /\ \A ip2 \in IPs \ {ip} : limiter.passed[l][ip2] = <<>>

\* the C22 case of the window sliding: an IP that was at its limit passes
\* again once its old requests left the window
C22_WitnessSlides ==
  \E l \in Limiters, ip \in IPs :
    /\ limiter.max[l] = 1
    /\ Len(limiter.passed[l][ip]) = 2
    /\ limiter.last.status = 0 /\ limiter.last.ip = ip /\ limiter.last.limiter = l
    /\ Len(limiter.requests[l][ip]) = 1

====
